---- MODULE Spec2Model ----
(***************************************************************************)
(* Fibonacci computation module: the iterative functions of                *)
(* fibonacci_iterative.py and the recursive ones of                        *)
(* fibonacci_recursive.py, driven by a caller that picks an input and      *)
(* calls them.  The pure functions are operators computed the way the code *)
(* computes them; fibonacci_recursive_memoized, whose cache is mutable     *)
(* state, is a machine with an explicit call stack.                        *)
(***************************************************************************)
EXTENDS Integers, Sequences, FiniteSets, TLC

\* Largest index / count the caller passes.
MaxN == 5
\* Most negative argument the caller passes.
MinN == 2
\* The ghost per-index computation counter saturates here.
MaxCount == 2

Inputs == (0 - MinN)..MaxN

VARIABLES
    n,          \* the argument the caller currently passes
    out,        \* outcome of each pure call made with the current n
    dicts,      \* the dict objects: "owned" by the caller, "local" to a call
    memo,       \* what the running call tree's `memo` parameter refers to
    stack,      \* frames of fibonacci_recursive_memoized, innermost last
    retv,       \* outcome handed back by the frame that just returned
    caller,     \* who waits for the running top-level memoized call
    seq_i,      \* loop index of fibonacci_sequence_recursive
    result,     \* result list of fibonacci_sequence_recursive
    last,       \* the last completed call made with the caller's dict
    max_req,    \* ghost: largest n passed so far with the caller's dict
    computed,   \* ghost: per index, computations done on the caller's dict
    nth_table   \* get_nth_fibonacci_iterative outcomes printed by the test loop

vars == <<n, out, dicts, memo, stack, retv, caller, seq_i, result, last,
          max_req, computed, nth_table>>

----------------------------------------------------------------------------
\* Outcomes of a call.

NoCall == [kind |-> "none"]
ValueError == [kind |-> "ValueError"]
Ok(v) == [kind |-> "ok", val |-> v]

Ops == {"get_nth_fibonacci_iterative", "fibonacci_iterative",
        "fibonacci_recursive_basic", "fibonacci_recursive_memoized",
        "fibonacci_sequence_recursive"}

EmptyDict == [k \in {} |-> 0]

----------------------------------------------------------------------------
\* fibonacci_iterative.py

RECURSIVE sequence_loop(_, _, _, _, _)
sequence_loop(res, a, b, i, stop) ==
    IF i >= stop THEN res
    ELSE sequence_loop(Append(res, b), b, a + b, i + 1, stop)

fibonacci_iterative_overrun(k) ==
    IF k < 0 THEN ValueError
    ELSE IF k = 0 THEN Ok(<< >>)
    ELSE IF k = 1 THEN Ok(<<0>>)
    ELSE Ok(sequence_loop(<<0>>, 0, 1, 1, k + 1))

fibonacci_iterative(k) ==
    IF k < 0 THEN ValueError
    ELSE IF k = 0 THEN Ok(<< >>)
    ELSE IF k = 1 THEN Ok(<<0>>)
    ELSE Ok(sequence_loop(<<0>>, 0, 1, 1, k))

RECURSIVE nth_loop(_, _, _, _)
nth_loop(a, b, i, stop) ==
    IF i >= stop THEN b
    ELSE nth_loop(b, a + b, i + 1, stop)

get_nth_fibonacci_iterative_short(k) ==
    IF k < 0 THEN ValueError
    ELSE IF k = 0 THEN Ok(0)
    ELSE IF k = 1 THEN Ok(1)
    ELSE Ok(nth_loop(0, 1, 2, k))

get_nth_fibonacci_iterative_unguarded(k) ==
    IF k = 0 THEN Ok(0)
    ELSE IF k = 1 THEN Ok(1)
    ELSE Ok(nth_loop(0, 1, 2, k + 1))

get_nth_fibonacci_iterative(k) ==
    IF k < 0 THEN ValueError
    ELSE IF k = 0 THEN Ok(0)
    ELSE IF k = 1 THEN Ok(1)
    ELSE Ok(nth_loop(0, 1, 2, k + 1))

----------------------------------------------------------------------------
\* fibonacci_recursive.py

RECURSIVE fibonacci_recursive_basic(_)
fibonacci_recursive_basic(k) ==
    IF k < 0 THEN ValueError
    ELSE IF k = 0 THEN Ok(0)
    ELSE IF k = 1 THEN Ok(1)
    ELSE Ok(fibonacci_recursive_basic(k - 1).val
            + fibonacci_recursive_basic(k - 2).val)

\* memo = {k: v}: the entry lands in a new dict, the old entries are gone.
StoreMemo_rebind(d, k, v) == [j \in {k} |-> v]

\* memo[k] = v
StoreMemo(d, k, v) == [j \in DOMAIN d \cup {k} |-> IF j = k THEN v ELSE d[j]]

\* if n - 1 in memo: return memo[n - 1]
Hit_previous(d, k) ==
    IF (k - 1) \in DOMAIN d THEN Ok(d[k - 1]) ELSE NoCall

\* lines 92-93: the cached value when n is in memo.
Hit(d, k) == IF k \in DOMAIN d THEN Ok(d[k]) ELSE NoCall

\* A frame of fibonacci_recursive_memoized: its n, where it stands, and the
\* value of the first recursive call once it has returned.
Frame(k) == [n |-> k, pc |-> "enter", first |-> 0]

Top == stack[Len(stack)]
Idle == stack = << >> /\ retv = NoCall /\ caller = "none"
Max(a, b) == IF a >= b THEN a ELSE b
Bump(c, k) == [c EXCEPT ![k] = IF c[k] < MaxCount THEN c[k] + 1 ELSE c[k]]
Pop == SubSeq(stack, 1, Len(stack) - 1)
SetTop(f) == [stack EXCEPT ![Len(stack)] = f]

\* lines 84-102, up to the first recursive call: the innermost frame starts.
fibonacci_recursive_memoized_enter ==
    /\ stack # << >>
    /\ retv = NoCall
    /\ Top.pc = "enter"
    /\ LET k == Top.n
           ref == IF memo = "None" THEN "local" ELSE memo
           ds == IF memo = "None" THEN [dicts EXCEPT !["local"] = EmptyDict]
                 ELSE dicts
           counted == IF ref = "owned" THEN Bump(computed, k) ELSE computed
       IN  IF k < 0
           THEN \* raise ValueError: the exception leaves the call
                /\ stack' = << >>
                /\ retv' = ValueError
                /\ UNCHANGED <<dicts, memo, computed>>
           ELSE IF Hit(ds[ref], k) # NoCall
           THEN \* return memo[n]
                /\ stack' = Pop
                /\ retv' = Hit(ds[ref], k)
                /\ dicts' = ds
                /\ memo' = ref
                /\ UNCHANGED computed
           ELSE IF k = 0 \/ k = 1
           THEN \* return 0 / return 1
                /\ stack' = Pop
                /\ retv' = Ok(k)
                /\ dicts' = ds
                /\ memo' = ref
                /\ computed' = counted
           ELSE \* fibonacci_recursive_memoized(n - 1, memo)
                /\ stack' = Append(SetTop([Top EXCEPT !.pc = "first"]),
                                   Frame(k - 1))
                /\ retv' = NoCall
                /\ dicts' = ds
                /\ memo' = ref
                /\ computed' = counted
    /\ UNCHANGED <<n, out, caller, seq_i, result, last, max_req, nth_table>>

\* line 102: the first recursive call returned, the second one is made.
fibonacci_recursive_memoized_second ==
    /\ stack # << >>
    /\ retv # NoCall
    /\ Top.pc = "first"
    /\ stack' = Append(SetTop([Top EXCEPT !.pc = "second",
                                          !.first = retv.val]),
                       Frame(Top.n - 2))
    /\ retv' = NoCall
    /\ UNCHANGED <<n, out, dicts, memo, caller, seq_i, result, last, max_req,
                   computed, nth_table>>

\* lines 102-103: the second recursive call returned; store and return.
fibonacci_recursive_memoized_store ==
    /\ stack # << >>
    /\ retv # NoCall
    /\ Top.pc = "second"
    /\ dicts' = [dicts EXCEPT
                   ![memo] = StoreMemo(dicts[memo], Top.n, Top.first + retv.val)]
    /\ retv' = Ok(dicts'[memo][Top.n])
    /\ stack' = Pop
    /\ UNCHANGED <<n, out, memo, caller, seq_i, result, last, max_req,
                   computed, nth_table>>

----------------------------------------------------------------------------
\* The caller.

NoOut == [o \in Ops |-> NoCall]

PickInput ==
    /\ Idle
    /\ \E k \in Inputs :
          /\ k # n
          /\ n' = k
    /\ out' = NoOut
    /\ UNCHANGED <<dicts, memo, stack, retv, caller, seq_i, result, last,
                   max_req, computed, nth_table>>

CallNthIterative ==
    /\ Idle
    /\ out["get_nth_fibonacci_iterative"] = NoCall
    /\ out' = [out EXCEPT !["get_nth_fibonacci_iterative"] =
                              get_nth_fibonacci_iterative(n)]
    /\ UNCHANGED <<n, dicts, memo, stack, retv, caller, seq_i, result, last,
                   max_req, computed, nth_table>>

CallSequenceIterative ==
    /\ Idle
    /\ out["fibonacci_iterative"] = NoCall
    /\ out' = [out EXCEPT !["fibonacci_iterative"] = fibonacci_iterative(n)]
    /\ UNCHANGED <<n, dicts, memo, stack, retv, caller, seq_i, result, last,
                   max_req, computed, nth_table>>

CallRecursiveBasic ==
    /\ Idle
    /\ out["fibonacci_recursive_basic"] = NoCall
    /\ out' = [out EXCEPT !["fibonacci_recursive_basic"] =
                              fibonacci_recursive_basic(n)]
    /\ UNCHANGED <<n, dicts, memo, stack, retv, caller, seq_i, result, last,
                   max_req, computed, nth_table>>

\* fibonacci_recursive_memoized(n): no memo argument.
CallMemoized ==
    /\ Idle
    /\ out["fibonacci_recursive_memoized"] = NoCall
    /\ caller' = "direct"
    /\ memo' = "None"
    /\ stack' = <<Frame(n)>>
    /\ UNCHANGED <<n, out, dicts, retv, seq_i, result, last, max_req,
                   computed, nth_table>>

ReturnMemoized ==
    /\ caller = "direct"
    /\ stack = << >>
    /\ retv # NoCall
    /\ out' = [out EXCEPT !["fibonacci_recursive_memoized"] = retv]
    /\ retv' = NoCall
    /\ caller' = "none"
    /\ memo' = "None"
    /\ dicts' = [dicts EXCEPT !["local"] = EmptyDict]   \* the dict is dropped
    /\ UNCHANGED <<n, stack, seq_i, result, last, max_req, computed,
                   nth_table>>

\* fibonacci_recursive_memoized(n, memo) with the dict the caller keeps.
CallMemoizedOwned ==
    /\ Idle
    /\ caller' = "owned"
    /\ memo' = "owned"
    /\ stack' = <<Frame(n)>>
    /\ max_req' = Max(max_req, n)
    /\ UNCHANGED <<n, out, dicts, retv, seq_i, result, last, computed,
                   nth_table>>

ReturnMemoizedOwned ==
    /\ caller = "owned"
    /\ stack = << >>
    /\ retv # NoCall
    /\ last' = [n |-> n, out |-> retv, memo |-> dicts["owned"]]
    /\ retv' = NoCall
    /\ caller' = "none"
    /\ memo' = "None"
    /\ UNCHANGED <<n, out, dicts, stack, seq_i, result, max_req, computed,
                   nth_table>>

\* lines 119-122
fibonacci_sequence_recursive_enter ==
    /\ Idle
    /\ out["fibonacci_sequence_recursive"] = NoCall
    /\ IF n < 0
       THEN /\ out' = [out EXCEPT !["fibonacci_sequence_recursive"] =
                                      ValueError]
            /\ UNCHANGED <<caller, seq_i, result>>
       ELSE /\ caller' = "sequence"
            /\ seq_i' = 0
            /\ result' = << >>
            /\ UNCHANGED out
    /\ UNCHANGED <<n, dicts, memo, stack, retv, last, max_req, computed,
                   nth_table>>

\* lines 123-125: the next fibonacci_recursive_memoized(i), or the return.
fibonacci_sequence_recursive_loop ==
    /\ caller = "sequence"
    /\ stack = << >>
    /\ retv = NoCall
    /\ IF seq_i < n
       THEN /\ stack' = <<Frame(seq_i)>>
            /\ memo' = "None"
            /\ UNCHANGED <<out, caller, seq_i, result>>
       ELSE /\ out' = [out EXCEPT !["fibonacci_sequence_recursive"] =
                                      Ok(result)]
            /\ caller' = "none"
            /\ seq_i' = 0
            /\ result' = << >>
            /\ UNCHANGED <<stack, memo>>
    /\ UNCHANGED <<n, dicts, retv, last, max_req, computed, nth_table>>

\* line 124: result.append(...)
fibonacci_sequence_recursive_append ==
    /\ caller = "sequence"
    /\ stack = << >>
    /\ retv # NoCall
    /\ result' = Append(result, retv.val)
    /\ seq_i' = seq_i + 1
    /\ retv' = NoCall
    /\ memo' = "None"
    /\ dicts' = [dicts EXCEPT !["local"] = EmptyDict]   \* the dict is dropped
    /\ UNCHANGED <<n, out, stack, caller, last, max_req, computed, nth_table>>

\* fibonacci_iterative.py's test loop over get_nth_fibonacci_iterative.
TabulateNth ==
    \E k \in 0..(MaxN + MinN) :
        /\ k \notin DOMAIN nth_table
        /\ nth_table' = [j \in DOMAIN nth_table \cup {k} |->
                            IF j = k THEN get_nth_fibonacci_iterative(k)
                            ELSE nth_table[j]]
        /\ UNCHANGED <<n, out, dicts, memo, stack, retv, caller, seq_i,
                       result, last, max_req, computed>>

----------------------------------------------------------------------------

Init ==
    /\ n \in Inputs
    /\ out = NoOut
    /\ dicts = [d \in {"owned", "local"} |-> EmptyDict]
    /\ memo = "None"
    /\ stack = << >>
    /\ retv = NoCall
    /\ caller = "none"
    /\ seq_i = 0
    /\ result = << >>
    /\ last = [n |-> 0, out |-> NoCall, memo |-> EmptyDict]
    /\ max_req = 0 - 1
    /\ computed = [k \in 0..MaxN |-> 0]
    /\ nth_table = EmptyDict

Next ==
    \/ PickInput
    \/ CallNthIterative
    \/ CallSequenceIterative
    \/ CallRecursiveBasic
    \/ CallMemoized
    \/ ReturnMemoized
    \/ CallMemoizedOwned
    \/ ReturnMemoizedOwned
    \/ fibonacci_recursive_memoized_enter
    \/ fibonacci_recursive_memoized_second
    \/ fibonacci_recursive_memoized_store
    \/ fibonacci_sequence_recursive_enter
    \/ fibonacci_sequence_recursive_loop
    \/ fibonacci_sequence_recursive_append

Spec == Init /\ [][Next]_vars

NextNth == TabulateNth

SpecNth == Init /\ [][NextNth]_vars

----------------------------------------------------------------------------
\* Properties.

NthOut == out["get_nth_fibonacci_iterative"]
BasicOut == out["fibonacci_recursive_basic"]
MemoOut == out["fibonacci_recursive_memoized"]
SeqIterOut == out["fibonacci_iterative"]
SeqRecOut == out["fibonacci_sequence_recursive"]
Owned == dicts["owned"]

\* C1: for n >= 0, whichever of get_nth_fibonacci_iterative(n),
\* fibonacci_recursive_basic(n) and fibonacci_recursive_memoized(n) (no memo
\* passed) have been called returned a value, and the same one.
C1_StrategiesAgree ==
    n >= 0 =>
        \A a \in {NthOut, BasicOut, MemoOut} :
            \A b \in {NthOut, BasicOut, MemoOut} :
                (a # NoCall /\ b # NoCall) => (a.kind = "ok" /\ a = b)

C1_Witness ==
    /\ n = 5
    /\ NthOut = Ok(5)
    /\ BasicOut # NoCall
    /\ MemoOut # NoCall

\* C2: for n >= 0, fibonacci_iterative(n) and fibonacci_sequence_recursive(n)
\* return a list of exactly n elements ([] for 0, [0] for 1), and the same
\* list.
C2_SequencesAgree ==
    n >= 0 =>
        /\ \A a \in {SeqIterOut, SeqRecOut} :
              a # NoCall =>
                  /\ a.kind = "ok"
                  /\ Len(a.val) = n
                  /\ (n = 0 => a.val = << >>)
                  /\ (n = 1 => a.val = <<0>>)
        /\ (SeqIterOut # NoCall /\ SeqRecOut # NoCall)
              => SeqIterOut = SeqRecOut

C2_Witness ==
    /\ n = 5
    /\ SeqIterOut = Ok(<<0, 1, 1, 2, 3>>)
    /\ SeqRecOut # NoCall

\* C3: with a negative n every operation, the memoized one with or without
\* the caller's dict included, ends in ValueError and hands back no value.
C3_NegativeRaises ==
    /\ n < 0 => \A o \in Ops : out[o] # NoCall => out[o] = ValueError
    /\ (last.out # NoCall /\ last.n < 0) => last.out = ValueError
    /\ (stack = << >> /\ retv # NoCall /\ caller = "owned" /\ n < 0)
          => retv = ValueError

C3_Witness ==
    /\ n < 0
    /\ \A o \in Ops : out[o] = ValueError
    /\ last.n < 0
    /\ last.out = ValueError

\* C4: when fibonacci_recursive_memoized(n, memo) is called again right after
\* a call with the same n and the same dict, the dict stays as the first call
\* left it for the whole second call, and the second call returns what the
\* first returned.
C4_SecondCallIdempotent ==
    (caller = "owned" /\ last.out # NoCall /\ last.n = n) =>
        /\ Owned = last.memo
        /\ (stack = << >> /\ retv # NoCall) => retv = last.out

C4_Witness ==
    /\ caller = "owned"
    /\ stack = << >>
    /\ n = 5
    /\ last.n = n
    /\ last.out = Ok(5)
    /\ retv = Ok(5)
    /\ 5 \in DOMAIN Owned

\* C5: get_nth_fibonacci_iterative returns 0 for 0, 1 for 1, and for n >= 2
\* the sum of what it returns for n - 1 and n - 2.
C5_Recurrence ==
    \A k \in DOMAIN nth_table :
        /\ nth_table[k].kind = "ok"
        /\ k = 0 => nth_table[k].val = 0
        /\ k = 1 => nth_table[k].val = 1
        /\ (k >= 2 /\ (k - 1) \in DOMAIN nth_table
                   /\ (k - 2) \in DOMAIN nth_table)
              => nth_table[k].val
                    = nth_table[k - 1].val + nth_table[k - 2].val

C5_Witness ==
    /\ {0, 1, 2, 3, 4, 5} \subseteq DOMAIN nth_table
    /\ nth_table[5] = Ok(5)

\* C6: over the calls sharing the caller's dict, every index reaches the
\* base-case or recursive-sum path at most once.
C6_ComputedAtMostOnce ==
    \A k \in DOMAIN computed : computed[k] <= 1

\* C7: after a completed call with n = 0 or n = 1 on the caller's dict, the
\* dict has the key n.
C7_BaseCaseStored ==
    (last.out # NoCall /\ last.n \in {0, 1}) => last.n \in DOMAIN last.memo

\* C8: while fibonacci_sequence_recursive computes index i, no smaller index
\* gets past the cache check: what was stored for it is reused.
C8_SequenceReusesCache ==
    caller = "sequence" =>
        \A j \in 1..Len(stack) :
            stack[j].n < seq_i => stack[j].pc = "enter"

\* C9: an entry of the caller's dict is never removed and never changes its
\* value.
C9_EntriesStable ==
    [][\A k \in DOMAIN Owned : k \in DOMAIN Owned' /\ Owned'[k] = Owned[k]]_vars

C9_Witness ==
    /\ caller = "owned"
    /\ stack = << >>
    /\ retv # NoCall
    /\ n = 5
    /\ last.out # NoCall
    /\ last.n = 3
    /\ Cardinality(DOMAIN last.memo) = 2
    /\ Cardinality(DOMAIN Owned) = 4

====
